---- MODULE Spec2Model ----
(***************************************************************************)
(* StampIt: the stamp detection pass (image_processing.py) and the part of *)
(* the Tk application that runs it (main.py).                              *)
(*                                                                         *)
(* OpenCV is the environment of detect_and_segment_stamps.  A decoded     *)
(* image is represented by its size and by the contours cv2.findContours   *)
(* reports for it; each contour carries its points and the polygon        *)
(* cv2.approxPolyDP returns for it.  cv2.contourArea and cv2.boundingRect  *)
(* are computed from the points as OpenCV computes them.  Pixel buffers    *)
(* are symbolic: a buffer is named by the operations that produced it and  *)
(* a crop by the buffer and the half-open row and column ranges sliced.    *)
(***************************************************************************)
EXTENDS Integers, Sequences, FiniteSets, TLC

VARIABLES
    disk,                        \* source images: path -> file content
    files,                       \* data/detected_stamps: path -> crop written
    issued,                      \* number of uuid4 values handed out so far
    calls,                       \* detect_and_segment_stamps calls on record
    current_image_path,          \* StampScannerApp.current_image_path
    original_pil_image,          \* StampScannerApp.original_pil_image
    detected_stamps_data,        \* StampScannerApp.detected_stamps_data
    displayed_stamp_rects_info,  \* StampScannerApp.displayed_stamp_rects_info
    detect_button,               \* state of the Detect Stamps button
    tk_image,                    \* size of the PhotoImage shown in image_label
    last_op,                     \* the handler that ran last and what it saw; whether
                                 \* a detection has completed since the last open
    fit,                         \* one render pass: its sizes and the two fits
    db,                          \* the stamps table, the dicts inserted, the last call
    running                      \* detect_and_segment_stamps calls in progress

vars == <<disk, files, issued, calls, current_image_path, original_pil_image,
          detected_stamps_data, displayed_stamp_rects_info, detect_button,
          tk_image, last_op, fit, db, running>>

\* What the detection pass and the application's handlers do not touch.
sideVars == <<fit, db, running>>

appVars == <<current_image_path, original_pil_image, detected_stamps_data,
             displayed_stamp_rects_info, detect_button, tk_image, last_op>>

(***************************************************************************)
(* Bounds of the model.                                                    *)
(***************************************************************************)
MaxContours == 2        \* contours per source image
MaxCalls == 2           \* detect_and_segment_stamps calls per behaviour
MaxUuids == 2           \* uuid4 values drawn for crops per behaviour
MaxUploads == 1         \* files copied to uploaded_images per behaviour
MaxDim == 9             \* width and height of an image whose fit is computed
MaxLabel == 9           \* width and height image_label reports for that fit
MaxRows == 2            \* rows of the stamps table

\* Python's None for an object, and the absence of an exception.
None == <<>>
NoError == "no error"

Max(a, b) == IF a >= b THEN a ELSE b
Min(a, b) == IF a <= b THEN a ELSE b
Abs(a) == IF a >= 0 THEN a ELSE -a

(***************************************************************************)
(* Constants for contour filtering.  The aspect ratio limits 0.5 and 2.0   *)
(* are kept as exact fractions <<numerator, denominator>>.                 *)
(***************************************************************************)
MIN_CONTOUR_AREA == 1000
MAX_CONTOUR_AREA == 50000
ASPECT_RATIO_MIN == <<1, 2>>
ASPECT_RATIO_MAX == <<2, 1>>

(***************************************************************************)
(* cv2.contourArea: Green's formula over the closed polygon, absolute      *)
(* value.  The result is a multiple of 0.5, so twice the area is returned. *)
(***************************************************************************)
Next1(i, n) == IF i = n THEN 1 ELSE i + 1

RECURSIVE CrossSum(_, _)
CrossSum(pts, i) ==
    IF i > Len(pts) THEN 0
    ELSE LET p == pts[i]
             q == pts[Next1(i, Len(pts))]
         IN  p[1] * q[2] - q[1] * p[2] + CrossSum(pts, i + 1)

contourArea2(contour) == Abs(CrossSum(contour.pts, 1))

(***************************************************************************)
(* cv2.approxPolyDP(contour, 0.02 * perimeter, True): the simplified       *)
(* polygon, a subsequence of the contour's vertices.  Which vertices       *)
(* survive is OpenCV's decision and is carried by the contour.             *)
(***************************************************************************)
approxPolyDP(contour) == contour.approx

(***************************************************************************)
(* cv2.boundingRect of a non-empty point set: the inclusive pixel extent,  *)
(* x = min x, y = min y, w = max x - min x + 1, h = max y - min y + 1.     *)
(***************************************************************************)
MinOf(S) == CHOOSE a \in S : \A b \in S : a <= b
MaxOf(S) == CHOOSE a \in S : \A b \in S : a >= b

boundingRect_exclusive(approx) ==
    LET xs == {approx[i][1] : i \in DOMAIN approx}
        ys == {approx[i][2] : i \in DOMAIN approx}
    IN  <<MinOf(xs), MinOf(ys), MaxOf(xs) - MinOf(xs), MaxOf(ys) - MinOf(ys)>>

boundingRect(approx) ==
    LET xs == {approx[i][1] : i \in DOMAIN approx}
        ys == {approx[i][2] : i \in DOMAIN approx}
    IN  <<MinOf(xs), MinOf(ys),
          MaxOf(xs) - MinOf(xs) + 1, MaxOf(ys) - MinOf(ys) + 1>>

(***************************************************************************)
(* The three filters of the loop body (image_processing.py 84, 90, 96).    *)
(* area2 is twice the area.  float(w) / h is a correctly rounded double    *)
(* of the exact quotient, so comparing it with 0.5 and 2.0 agrees with     *)
(* the comparison of the exact fractions.                                  *)
(***************************************************************************)
AreaInBand_inclusive(area2) ==
    2 * MIN_CONTOUR_AREA <= area2 /\ area2 <= 2 * MAX_CONTOUR_AREA

AreaInBand(area2) ==
    2 * MIN_CONTOUR_AREA < area2 /\ area2 < 2 * MAX_CONTOUR_AREA

IsQuadrilateral_atleast(approx) == Len(approx) >= 4

IsQuadrilateral(approx) == Len(approx) = 4

AspectInBand_exclusive(w, h) ==
    /\ ASPECT_RATIO_MIN[1] * h < w * ASPECT_RATIO_MIN[2]
    /\ w * ASPECT_RATIO_MAX[2] < ASPECT_RATIO_MAX[1] * h

AspectInBand(w, h) ==
    /\ ASPECT_RATIO_MIN[1] * h <= w * ASPECT_RATIO_MIN[2]
    /\ w * ASPECT_RATIO_MAX[2] <= ASPECT_RATIO_MAX[1] * h

(***************************************************************************)
(* Source images.  The scanned sheet is ImageSize pixels; its contours are *)
(* up to MaxContours entries of ContourCatalogue, in catalogue order,      *)
(* every vertex inside the image.  Each entry is one case of the filters:  *)
(*   area exactly 1000 and 50000, area 1000.5 and 49999.5,                 *)
(*   bounding boxes of ratio exactly 0.5 and 2.0 and just outside,         *)
(*   polygons of 3 and 5 vertices, a contour simplified to 4 of its 5      *)
(*   vertices, a 2-pixel sliver along the top border whose simplification  *)
(*   is a row of 4 points, and a 2-point speck.                            *)
(***************************************************************************)
ImageSize == <<601, 272>>

Rect(x0, y0, x1, y1) == <<<<x0, y0>>, <<x1, y0>>, <<x1, y1>>, <<x0, y1>>>>

Polygon(pts) == [pts |-> pts, approx |-> pts]

ContourCatalogue ==
    << Polygon(Rect(0, 0, 25, 40)),
      Polygon(<<<<0, 0>>, <<29, 0>>, <<29, 34>>, <<0, 35>>>>),
      Polygon(Rect(0, 0, 200, 250)),
      Polygon(<<<<0, 0>>, <<185, 0>>, <<184, 271>>, <<0, 271>>>>),
      Polygon(Rect(300, 100, 329, 159)),
      Polygon(Rect(400, 100, 459, 129)),
      Polygon(Rect(300, 100, 329, 160)),
      Polygon(Rect(400, 100, 460, 129)),
      Polygon(<<<<350, 10>>, <<430, 10>>, <<350, 90>>>>),
      Polygon(<<<<350, 10>>, <<430, 10>>, <<450, 50>>, <<430, 90>>, <<350, 90>>>>),
      [pts |-> <<<<500, 10>>, <<540, 10>>, <<580, 11>>, <<580, 70>>, <<500, 70>>>>,
       approx |-> <<<<500, 10>>, <<580, 11>>, <<580, 70>>, <<500, 70>>>>],
      [pts |-> <<<<0, 0>>, <<200, 0>>, <<400, 0>>, <<600, 0>>, <<600, 2>>, <<0, 2>>>>,
       approx |-> <<<<0, 0>>, <<200, 0>>, <<400, 0>>, <<600, 0>>>>],
      Polygon(<<<<5, 5>>, <<6, 5>>>>) >>

\* The increasing index sequences of length up to n into 1..m.
Increasing(m, n) ==
    {ix \in UNION {[1..k -> 1..m] : k \in 0..n} :
        \A i, j \in DOMAIN ix : i < j => ix[i] < ix[j]}

Images ==
    {[size |-> ImageSize, contours |-> [i \in DOMAIN ix |-> ContourCatalogue[ix[i]]]] :
        ix \in Increasing(Len(ContourCatalogue), MaxContours)}

\* A file that is no image, and one PIL opens but cv2.imread does not.
Garbage == [kind |-> "garbage"]
ImageFile(image) == [kind |-> "image", image |-> image]
PilOnlyFile(image) == [kind |-> "pil_only", image |-> image]

\* Source paths are <<directory, stem, suffix>>; Path(p).stem is p[2].  A stem
\* is <<name, "", "", 0>>, or <<name, "_", hex8, serial>> for an uploaded copy.
SheetPath == <<"scans", <<"sheet", "", "", 0>>, ".png">>
PagePath == <<"scans", <<"page", "", "", 0>>, ".jpg">>
BrokenPath == <<"scans", <<"broken", "", "", 0>>, ".png">>
TextPath == <<"scans", <<"notes", "", "", 0>>, ".txt">>
SourcePaths == {SheetPath, PagePath, BrokenPath, TextPath}
Stem(path) == path[2]

(***************************************************************************)
(* uuid.uuid4(): a random value never handed out before, <<its first 8    *)
(* hex digits, serial>>: the digits are any of Hex8s and the serial, the   *)
(* count of values handed out, stands for the other 24 digits.  .hex[:8]   *)
(* keeps the first component, so two different values can give the same 8  *)
(* digits.                                                                 *)
(***************************************************************************)
Hex8s == {"1a2b3c4d", "9f8e7d6c"}

Hex8(u) == u[1]


StampSavePath(stem, u) == <<"detected_stamps", stem, "_stamp_", Hex8(u), ".png">>

(***************************************************************************)
(* Steps 2 to 5: the buffers of one call.  cv2.imread decodes the file;    *)
(* cvtColor, GaussianBlur and Canny each return a new buffer.              *)
(***************************************************************************)
Decoded(path) == <<"imread", path>>

Buffers(path) ==
    LET img == Decoded(path)
        gray == <<"cvtColor", img>>
        blurred == <<"GaussianBlur", gray>>
    IN  [img |-> img,
         original_image_for_cropping |-> img,
         gray |-> gray,
         blurred |-> blurred,
         edges |-> <<"Canny", blurred>>]

\* buffer[y : y + h, x : x + w] on a buffer of `size`: numpy clips the slice.
Slice(buffer, size, x, y, w, h) ==
    [pixels |-> buffer,
     rows |-> <<Min(y, size[2]), Min(y + h, size[2])>>,
     cols |-> <<Min(x, size[1]), Min(x + w, size[1])>>]

CroppedStamp_gray(buffers, size, x, y, w, h) == Slice(buffers.gray, size, x, y, w, h)

CroppedStamp(buffers, size, x, y, w, h) ==
    Slice(buffers.original_image_for_cropping, size, x, y, w, h)

StampRecord_corners(path, x, y, w, h) == [path |-> path, bbox |-> <<x, y, x + w, y + h>>]

StampRecord(path, x, y, w, h) == [path |-> path, bbox |-> <<x, y, w, h>>]

(***************************************************************************)
(* Step 7, the loop body for one contour.  st is the loop's state: data   *)
(* (processed_stamps_data), writes (the files cv2.imwrite wrote, in        *)
(* order), k (environment choices used), raised, and trace: per contour,   *)
(* the branch taken, rec (its index in data, 0 for none) and wrote.        *)
(* env[k] is the k-th accepted contour's uuid4 value and the outcome of    *)
(* cv2.imwrite: "True" (written), "False" (not written, no exception: the  *)
(* return value, which the code does not read) or "raise".                 *)
(***************************************************************************)
ImwriteOutcomes == {"True", "False", "raise"}

Skip(st, branch) ==
    [st EXCEPT !.trace = Append(@, [branch |-> branch, rec |-> 0, wrote |-> FALSE])]

LoopBody(st, contour, env, stem, buffers, size) ==
    LET area2 == contourArea2(contour)
        approx == approxPolyDP(contour)
        rect == boundingRect(approx)
        x == rect[1]
        y == rect[2]
        w == rect[3]
        h == rect[4]
        e == env[st.k + 1]
        stamp_save_path == StampSavePath(stem, e.uuid)
        cropped_stamp == CroppedStamp(buffers, size, x, y, w, h)
    IN  IF ~AreaInBand(area2) THEN Skip(st, "area")
        ELSE IF ~IsQuadrilateral(approx) THEN Skip(st, "vertices")
        ELSE IF h = 0 THEN [Skip(st, "aspect") EXCEPT !.raised = "ZeroDivisionError"]
        ELSE IF ~AspectInBand(w, h) THEN Skip(st, "aspect")
        ELSE CASE e.imwrite = "True" ->
                    [st EXCEPT
                       !.k = @ + 1,
                       !.writes = Append(@, <<stamp_save_path, cropped_stamp>>),
                       !.data = Append(@, StampRecord(stamp_save_path, x, y, w, h)),
                       !.trace = Append(@, [branch |-> "imwrite", rec |-> Len(st.data) + 1,
                                            wrote |-> TRUE])]
               [] e.imwrite = "False" ->
                    [st EXCEPT
                       !.k = @ + 1,
                       !.data = Append(@, StampRecord(stamp_save_path, x, y, w, h)),
                       !.trace = Append(@, [branch |-> "imwrite", rec |-> Len(st.data) + 1,
                                            wrote |-> FALSE])]
               [] OTHER ->
                    [st EXCEPT
                       !.k = @ + 1,
                       !.trace = Append(@, [branch |-> "except", rec |-> 0,
                                            wrote |-> FALSE])]

RECURSIVE Loop(_, _, _, _, _, _, _)
Loop(st, contours, i, env, stem, buffers, size) ==
    IF i > Len(contours) \/ st.raised # NoError THEN st
    ELSE Loop(LoopBody(st, contours[i], env, stem, buffers, size),
              contours, i + 1, env, stem, buffers, size)

\* The contours that pass the three filters: those that reach cv2.imwrite.
Passes(contour) ==
    /\ AreaInBand(contourArea2(contour))
    /\ IsQuadrilateral(approxPolyDP(contour))
    /\ boundingRect(approxPolyDP(contour))[4] # 0
    /\ AspectInBand(boundingRect(approxPolyDP(contour))[3],
                    boundingRect(approxPolyDP(contour))[4])

(***************************************************************************)
(* detect_and_segment_stamps(uploaded_image_path) as a function of the     *)
(* file at the path and of the environment: mkdir ("ok" or "OSError") and  *)
(* env.  The result: raised (NoError or the exception), ret (the returned     *)
(* list), writes, trace, and the buffers as the call leaves them.          *)
(***************************************************************************)
Raised(exc) ==
    [raised |-> exc, ret |-> <<>>, writes |-> <<>>, trace |-> <<>>, buffers |-> None]

detect_imread_unchecked(path, content, mkdir, env) ==
    LET st0 == [data |-> <<>>, writes |-> <<>>, trace |-> <<>>, k |-> 0, raised |-> NoError]
        buffers == Buffers(path)
        contours == IF content.kind = "image" THEN content.image.contours ELSE <<>>
        size == IF content.kind = "image" THEN content.image.size ELSE <<0, 0>>
        st == Loop(st0, contours, 1, env, Stem(path), buffers, size)
    IN  IF mkdir = "OSError" THEN Raised("ValueError")
        ELSE [raised |-> st.raised,
              ret |-> IF st.raised = NoError THEN st.data ELSE <<>>,
              writes |-> st.writes, trace |-> st.trace, buffers |-> buffers]

\* A variant that remembers the stems it has exported and skips them.
detect_skips_exported(path, content, mkdir, env) ==
    IF mkdir = "OSError" THEN Raised("ValueError")
    ELSE IF content.kind # "image" THEN Raised("IOError")
    ELSE LET st0 == [data |-> <<>>, writes |-> <<>>, trace |-> <<>>, k |-> 0,
                     raised |-> NoError]
             buffers == Buffers(path)
             contours == IF \E q \in DOMAIN files : q[2] = Stem(path) THEN <<>>
                         ELSE content.image.contours
             st == Loop(st0, contours, 1, env, Stem(path), buffers, content.image.size)
         IN  [raised |-> st.raised,
              ret |-> IF st.raised = NoError THEN st.data ELSE <<>>,
              writes |-> st.writes, trace |-> st.trace, buffers |-> buffers]

detect_and_segment_stamps(path, content, mkdir, env) ==
    IF mkdir = "OSError" THEN Raised("ValueError")
    ELSE IF content.kind # "image" THEN Raised("IOError")
    ELSE LET st0 == [data |-> <<>>, writes |-> <<>>, trace |-> <<>>, k |-> 0,
                     raised |-> NoError]
             buffers == Buffers(path)
             st == Loop(st0, content.image.contours, 1, env, Stem(path), buffers,
                        content.image.size)
         IN  [raised |-> st.raised,
              ret |-> IF st.raised = NoError THEN st.data ELSE <<>>,
              writes |-> st.writes, trace |-> st.trace, buffers |-> buffers]

(***************************************************************************)
(* db_utils.py: the stamps table.  A row has the columns id,               *)
(* detected_stamp_image_path (TEXT UNIQUE NOT NULL), country, which stands *)
(* for the six optional TEXT columns that are handled alike, and           *)
(* source_urls; the timestamp column is left out.  Python values are       *)
(* tagged: Str(s) a str, List(l) a list of str, JsonText(l) the str that   *)
(* json.dumps returns for the list l, None, and Absent for a key that the  *)
(* dict does not hold.  A path is a str, kept in the form StampSavePath    *)
(* builds.  A returned row id n is <<n>>.  conn is the outcome of the      *)
(* connection and of the statement: "ok" or "sqlite3.Error".               *)
(***************************************************************************)
Str(s) == <<"str", s>>
List(l) == <<"list", l>>
JsonText(l) == <<"json", l>>
Absent == <<"absent">>

IsList(v) == Len(v) = 2 /\ v[1] = "list"
IsJsonText(v) == Len(v) = 2 /\ v[1] = "json"
IsStr(v) == Len(v) = 2 /\ v[1] = "str"

json_dumps(v) == JsonText(v[2])

\* json.loads(text): the list, or JSONDecodeError for text that is no JSON.
json_loads(v) == IF IsJsonText(v) THEN List(v[2]) ELSE "JSONDecodeError"

\* bool(v) for a column value: None and the empty str are false.
Truthy(v) == v # None /\ ~(IsStr(v) /\ v[2] = "")

EmptyTable == <<>>

\* The database after initialize_database on a new file: rows, the dict
\* each row was inserted from, and the last call made.
EmptyDb == [rows |-> EmptyTable, inserted |-> <<>>, last |-> None]

RowsWithPath(rows, image_path) ==
    {i \in DOMAIN rows : rows[i].detected_stamp_image_path = image_path}

\* The column value of a key: NULL for a key the dict does not hold.
Column(v) == IF v = Absent THEN None ELSE v

add_stamp_record_upsert(rows, stamp_data, conn) ==
    LET data == IF IsList(stamp_data.source_urls)
                THEN [stamp_data EXCEPT !.source_urls = json_dumps(@)]
                ELSE stamp_data
        old == RowsWithPath(rows, data.detected_stamp_image_path)
        row == [id |-> IF old = {} THEN Len(rows) + 1 ELSE rows[MinOf(old)].id,
                detected_stamp_image_path |-> data.detected_stamp_image_path,
                country |-> Column(data.country),
                source_urls |-> Column(data.source_urls)]
    IN  IF stamp_data.detected_stamp_image_path = Absent
        THEN [ret |-> None, rows |-> rows, stamp_data |-> stamp_data]
        ELSE IF conn # "ok" \/ data.detected_stamp_image_path = None
        THEN [ret |-> None, rows |-> rows, stamp_data |-> data]
        ELSE [ret |-> <<row.id>>,
              rows |-> IF old = {} THEN Append(rows, row)
                       ELSE [rows EXCEPT ![MinOf(old)] = row],
              stamp_data |-> data]

add_stamp_record_nullpath(rows, stamp_data, conn) ==
    LET data == IF IsList(stamp_data.source_urls)
                THEN [stamp_data EXCEPT !.source_urls = json_dumps(@)]
                ELSE stamp_data
        row == [id |-> Len(rows) + 1,
                detected_stamp_image_path |-> Column(data.detected_stamp_image_path),
                country |-> Column(data.country),
                source_urls |-> Column(data.source_urls)]
        IntegrityError == RowsWithPath(rows, data.detected_stamp_image_path) # {}
    IN  IF conn # "ok" \/ IntegrityError
        THEN [ret |-> None, rows |-> rows, stamp_data |-> data]
        ELSE [ret |-> <<row.id>>, rows |-> Append(rows, row), stamp_data |-> data]

\* add_stamp_record(stamp_data): the returned id, the table, and the dict,
\* whose source_urls list the call replaces by its JSON text.
add_stamp_record(rows, stamp_data, conn) ==
    LET data == IF IsList(stamp_data.source_urls)
                THEN [stamp_data EXCEPT !.source_urls = json_dumps(@)]
                ELSE stamp_data
        row == [id |-> Len(rows) + 1,
                detected_stamp_image_path |-> data.detected_stamp_image_path,
                country |-> Column(data.country),
                source_urls |-> Column(data.source_urls)]
        IntegrityError == \/ data.detected_stamp_image_path = None
                          \/ RowsWithPath(rows, data.detected_stamp_image_path) # {}
    IN  IF stamp_data.detected_stamp_image_path = Absent
        THEN [ret |-> None, rows |-> rows, stamp_data |-> stamp_data]
        ELSE IF conn # "ok" \/ IntegrityError
        THEN [ret |-> None, rows |-> rows, stamp_data |-> data]
        ELSE [ret |-> <<row.id>>, rows |-> Append(rows, row), stamp_data |-> data]

RecordDict_raw(record) == record

\* dict(record) with source_urls parsed where it is a non-empty str.
RecordDict(record) ==
    IF Truthy(record.source_urls)
    THEN [record EXCEPT !.source_urls = IF IsJsonText(@) THEN json_loads(@)
                                        ELSE List(<<>>)]
    ELSE record

get_stamp_by_image_path(rows, image_path, conn) ==
    IF conn # "ok" THEN None
    ELSE IF RowsWithPath(rows, image_path) = {} THEN None
    ELSE RecordDict(rows[MinOf(RowsWithPath(rows, image_path))])

\* get_all_stamps(): SELECT * FROM stamps ORDER BY timestamp DESC.  The
\* timestamp is CURRENT_TIMESTAMP, in whole seconds; rows inserted within
\* one second tie and come in an order SQLite does not define, so `order`,
\* the order of the result set, can be any order of the rows.
Orders(rows) ==
    {order \in [DOMAIN rows -> DOMAIN rows] :
        \A i, j \in DOMAIN rows : i # j => order[i] # order[j]}

get_all_stamps(rows, order, conn) ==
    IF conn # "ok" THEN <<>>
    ELSE [j \in DOMAIN rows |-> RecordDict(rows[order[j]])]

(***************************************************************************)
(* State after construction (StampScannerApp.__init__) and the source      *)
(* files: a sheet that decodes to one of Images and a file that does not   *)
(* decode.  data/detected_stamps is empty.                                 *)
(***************************************************************************)
DISABLED == "disabled"
NORMAL == "normal"

NoFiles == [p \in {} |-> None]

WriteFile(fs, path, content) ==
    [q \in DOMAIN fs \cup {path} |-> IF q = path THEN content ELSE fs[q]]

RECURSIVE ApplyWrites(_, _, _)
ApplyWrites(fs, writes, i) ==
    IF i > Len(writes) THEN fs
    ELSE ApplyWrites(WriteFile(fs, writes[i][1], writes[i][2]), writes, i + 1)

InitApp ==
    /\ current_image_path = None
    /\ original_pil_image = None
    /\ detected_stamps_data = <<>>
    /\ displayed_stamp_rects_info = <<>>
    /\ detect_button = DISABLED
    /\ tk_image = None
    /\ last_op = [op |-> "__init__", detected_since_open |-> FALSE]

\* sheet.png decodes to `image`; page.jpg holds the same picture, which PIL
\* opens and cv2.imread does not; broken.png and notes.txt are no images.
InitWith(images) ==
    /\ \E image \in images :
           disk = [p \in SourcePaths |->
                     CASE p = SheetPath -> ImageFile(image)
                       [] p = PagePath -> PilOnlyFile(image)
                       [] OTHER -> Garbage]
    /\ files = NoFiles
    /\ issued = 0
    /\ calls = <<>>
    /\ InitApp
    /\ fit = None
    /\ db = EmptyDb
    /\ running = <<>>

(***************************************************************************)
(* The environment of one call: whether mkdir succeeds, and for each       *)
(* contour that reaches cv2.imwrite a fresh uuid4 value and the outcome    *)
(* of the write.                                                           *)
(***************************************************************************)
NumPassing(content) ==
    IF content.kind = "image"
    THEN Cardinality({i \in DOMAIN content.image.contours :
                          Passes(content.image.contours[i])})
    ELSE 0

EnvSeqs(n, serial) ==
    {[i \in 1..n |-> [uuid |-> <<c[i].hex8, serial + i>>, imwrite |-> c[i].imwrite]] :
         c \in [1..n -> [hex8 : Hex8s, imwrite : ImwriteOutcomes]]}

\* The environments of a call made now, none once `limit` uuid4 values
\* would be exceeded.
Envs(content, mkdir, limit) ==
    LET n == IF mkdir = "ok" THEN NumPassing(content) ELSE 0
    IN  IF issued + n <= limit THEN EnvSeqs(n, issued) ELSE {}

CallRecord(path, content, mkdir, env, r, before) ==
    [path |-> path, content |-> content, mkdir |-> mkdir, env |-> env,
     raised |-> r.raised, ret |-> r.ret, writes |-> r.writes, trace |-> r.trace,
     buffers |-> r.buffers, files_before |-> before]

\* A caller other than the application (main_test, a batch script).
call_detect(path) ==
    /\ Len(calls) < MaxCalls
    /\ \E mkdir \in {"ok", "OSError"} :
       \E env \in Envs(disk[path], mkdir, MaxUuids) :
           LET r == detect_and_segment_stamps(path, disk[path], mkdir, env)
           IN  /\ files' = ApplyWrites(files, r.writes, 1)
               /\ issued' = issued + Len(env)
               /\ calls' = Append(calls, CallRecord(path, disk[path], mkdir, env, r, files))
    /\ UNCHANGED <<disk, appVars, sideVars>>

InitDetect == InitWith(Images)

NextDetect == \E path \in {SheetPath, BrokenPath} : call_detect(path)

SpecDetect == InitDetect /\ [][NextDetect]_vars

(***************************************************************************)
(* The application (main.py).  image_label's size is what winfo_width and  *)
(* winfo_height report after update_idletasks: a value of LabelSizes, the  *)
(* degenerate 1x1 before first layout among them; the label's master       *)
(* reports a value of MasterSizes.  One handler reads one size: nothing    *)
(* resizes the widgets while a handler runs.                               *)
(***************************************************************************)
LabelSizes == {<<1, 1>>, <<300, 100>>}
MasterSizes == {<<780, 563>>}
DefaultLabelSize == <<600, 400>>

\* A name typed in the file dialog that is no file.
MissingPath == <<"scans", <<"gone", "", "", 0>>, ".png">>
ALLOWED_EXTENSIONS == {".png", ".jpg", ".jpeg"}

\* Image.open(path): the PIL image, or the exception raised.
ImageOpen(dsk, path) ==
    IF path \notin DOMAIN dsk THEN [exc |-> "FileNotFoundError"]
    ELSE IF dsk[path].kind \in {"image", "pil_only"}
    THEN [exc |-> NoError, image |-> [path |-> path, size |-> dsk[path].image.size]]
    ELSE [exc |-> "UnidentifiedImageError"]

(***************************************************************************)
(* The fit of display_image (175-185) and draw_stamp_rectangles (270-283): *)
(* fit to the label's width, refit to its height if that is too tall.      *)
(* aspect_ratio = W / H is a double.  int(n / aspect_ratio) is the floor   *)
(* of the exact quotient n * H / W, except where the exact quotient is an  *)
(* integer and the double quotient falls just below it: RoundsBelow lists  *)
(* those <<n, W, H>>, evaluated in IEEE double arithmetic, for n, W and H  *)
(* up to 11, for n a side of DefaultLabelSize or of MasterSizes, and for   *)
(* the sizes of ImageSize.  int(n * aspect_ratio) equals the floor of the  *)
(* exact product n * W / H everywhere on that domain.                      *)
(***************************************************************************)
RoundsBelow == {<<9, 9, 7>>}

IntDiv(n, W, H) == (n * H) \div W - (IF <<n, W, H>> \in RoundsBelow THEN 1 ELSE 0)

IntMul(n, W, H) == (n * W) \div H

FitSize_norefit(size, label) ==
    <<Max(1, label[1]), Max(1, IntDiv(label[1], size[1], size[2]))>>

FitSize(size, label) ==
    LET new_width == label[1]
        new_height == IntDiv(new_width, size[1], size[2])
        refit == new_height > label[2]
    IN  <<Max(1, IF refit THEN IntMul(label[2], size[1], size[2]) ELSE new_width),
          Max(1, IF refit THEN label[2] ELSE new_height)>>

\* new_width, new_height of display_image for the label size it reads.
DisplayScaledSize(size, label) ==
    FitSize(size, IF label[1] <= 1 \/ label[2] <= 1 THEN DefaultLabelSize ELSE label)

\* scaled_display_width, scaled_display_height of draw_stamp_rectangles.
DrawScaledSize(size, label, master) ==
    FitSize(size, IF label[1] <= 1 \/ label[2] <= 1 THEN master ELSE label)

\* A variant whose except branches leave the button as it is set at 202.
display_image_enabling(dsk, path, boxes_image, label, orig, tk, cur_path) ==
    LET opened == IF boxes_image # None
                  THEN [exc |-> NoError, image |-> orig]
                  ELSE ImageOpen(dsk, path)
        display_pil_image == IF boxes_image # None THEN boxes_image ELSE opened.image
    IN  IF opened.exc # NoError
        THEN [original_pil_image |-> orig, tk_image |-> tk,
              detect_button |-> IF cur_path # None THEN NORMAL ELSE DISABLED]
        ELSE [original_pil_image |-> opened.image,
              tk_image |-> DisplayScaledSize(display_pil_image.size, label),
              detect_button |-> IF cur_path # None THEN NORMAL ELSE DISABLED]

\* display_image(path, draw_boxes_on_this_image): the fields it leaves.
display_image(dsk, path, boxes_image, label, orig, tk, cur_path) ==
    LET opened == IF boxes_image # None
                  THEN [exc |-> NoError, image |-> orig]
                  ELSE ImageOpen(dsk, path)
        display_pil_image == IF boxes_image # None THEN boxes_image ELSE opened.image
    IN  IF opened.exc # NoError
        THEN [original_pil_image |-> orig, tk_image |-> tk, detect_button |-> DISABLED]
        ELSE [original_pil_image |-> opened.image,
              tk_image |-> DisplayScaledSize(display_pil_image.size, label),
              detect_button |-> IF cur_path # None THEN NORMAL ELSE DISABLED]

\* handle_image_upload(image_path): the copy's path, or the exception.  The
\* copy's name holds all 32 hex digits of its uuid4 value, which the serial
\* tells apart; its first 8 digits are the same for every upload.
UploadHex8 == "1a2b3c4d"

UploadedPath(path, u) ==
    <<"uploaded_images", <<path[2][1], "_", u[1], u[2]>>, path[3]>>

handle_image_upload(dsk, path, u, copy_ok) ==
    IF path \notin DOMAIN dsk THEN [exc |-> "FileNotFoundError"]
    ELSE IF path[3] \notin ALLOWED_EXTENSIONS THEN [exc |-> "ValueError"]
    ELSE IF ~copy_ok THEN [exc |-> "IOError"]
    ELSE [exc |-> NoError, path |-> UploadedPath(path, u)]

\* A variant without the clearing of lines 111-112.
open_image_dialog_noclear ==
    /\ UNCHANGED <<detected_stamps_data, displayed_stamp_rects_info>>
    /\ \/ \* the dialog is cancelled
          /\ detect_button' = DISABLED
          /\ last_op' = [op |-> "open_image_dialog", outcome |-> "cancelled",
                         detected_since_open |-> FALSE]
          /\ UNCHANGED <<disk, issued, current_image_path, original_pil_image, tk_image>>
       \/ \* handle_image_upload raises
          \E filepath \in DOMAIN disk \cup {MissingPath}, copy_ok \in BOOLEAN :
             LET up == handle_image_upload(disk, filepath, <<"", 0>>, copy_ok)
             IN  /\ up.exc # NoError
                 /\ detect_button' = DISABLED
                 /\ last_op' = [op |-> "open_image_dialog", outcome |-> up.exc,
                                detected_since_open |-> FALSE]
                 /\ UNCHANGED <<disk, issued, current_image_path, original_pil_image,
                                tk_image>>
       \/ \* the file is copied to uploaded_images and displayed
          \E filepath \in DOMAIN disk, label \in LabelSizes :
             LET u == <<UploadHex8, issued + 1>>
                 up == handle_image_upload(disk, filepath, u, TRUE)
                 dsk == [q \in DOMAIN disk \cup {up.path} |->
                           IF q = up.path THEN disk[filepath] ELSE disk[q]]
                 shown == display_image(dsk, up.path, None, label,
                                        original_pil_image, tk_image, up.path)
             IN  /\ Cardinality({q \in DOMAIN disk : q[1] = "uploaded_images"}) < MaxUploads
                 /\ up.exc = NoError
                 /\ disk' = dsk
                 /\ issued' = issued + 1
                 /\ current_image_path' = up.path
                 /\ original_pil_image' = shown.original_pil_image
                 /\ tk_image' = shown.tk_image
                 /\ detect_button' = shown.detect_button
                 /\ last_op' = [op |-> "open_image_dialog",
                                outcome |-> IF shown.detect_button = NORMAL
                                            THEN "displayed" ELSE "display_failed",
                                detected_since_open |-> FALSE]
    /\ UNCHANGED <<files, calls, sideVars>>

open_image_dialog ==
    /\ detected_stamps_data' = <<>>
    /\ displayed_stamp_rects_info' = <<>>
    /\ \/ \* the dialog is cancelled
          /\ detect_button' = DISABLED
          /\ last_op' = [op |-> "open_image_dialog", outcome |-> "cancelled",
                         detected_since_open |-> FALSE]
          /\ UNCHANGED <<disk, issued, current_image_path, original_pil_image, tk_image>>
       \/ \* handle_image_upload raises
          \E filepath \in DOMAIN disk \cup {MissingPath}, copy_ok \in BOOLEAN :
             LET up == handle_image_upload(disk, filepath, <<"", 0>>, copy_ok)
             IN  /\ up.exc # NoError
                 /\ detect_button' = DISABLED
                 /\ last_op' = [op |-> "open_image_dialog", outcome |-> up.exc,
                                detected_since_open |-> FALSE]
                 /\ UNCHANGED <<disk, issued, current_image_path, original_pil_image,
                                tk_image>>
       \/ \* the file is copied to uploaded_images and displayed
          \E filepath \in DOMAIN disk, label \in LabelSizes :
             LET u == <<UploadHex8, issued + 1>>
                 up == handle_image_upload(disk, filepath, u, TRUE)
                 dsk == [q \in DOMAIN disk \cup {up.path} |->
                           IF q = up.path THEN disk[filepath] ELSE disk[q]]
                 shown == display_image(dsk, up.path, None, label,
                                        original_pil_image, tk_image, up.path)
             IN  /\ Cardinality({q \in DOMAIN disk : q[1] = "uploaded_images"}) < MaxUploads
                 /\ up.exc = NoError
                 /\ disk' = dsk
                 /\ issued' = issued + 1
                 /\ current_image_path' = up.path
                 /\ original_pil_image' = shown.original_pil_image
                 /\ tk_image' = shown.tk_image
                 /\ detect_button' = shown.detect_button
                 /\ last_op' = [op |-> "open_image_dialog",
                                outcome |-> IF shown.detect_button = NORMAL
                                            THEN "displayed" ELSE "display_failed",
                                detected_since_open |-> FALSE]
    /\ UNCHANGED <<files, calls, sideVars>>

(***************************************************************************)
(* draw_stamp_rectangles(stamps_data_to_draw): the hit records it builds.  *)
(* int(x * scale_x) with scale_x = scaled_display_width / orig_img_width   *)
(* is taken as the floor of the exact product.                             *)
(***************************************************************************)
HitRecord(stamp_item, scaled, size) ==
    LET x == stamp_item.bbox[1]
        y == stamp_item.bbox[2]
        w == stamp_item.bbox[3]
        h == stamp_item.bbox[4]
    IN  [scaled_bbox |-> <<(x * scaled[1]) \div size[1], (y * scaled[2]) \div size[2],
                           ((x + w) * scaled[1]) \div size[1],
                           ((y + h) * scaled[2]) \div size[2]>>,
         original_data |-> stamp_item]

draw_stamp_rectangles_reversed(stamps_data_to_draw, orig, label, master) ==
    LET scaled == DrawScaledSize(orig.size, label, master)
    IN  [i \in DOMAIN stamps_data_to_draw |->
            HitRecord(stamps_data_to_draw[Len(stamps_data_to_draw) + 1 - i], scaled,
                      orig.size)]

\* A variant without the clear() of line 256.
draw_stamp_rectangles_noclear(stamps_data_to_draw, orig, label, master) ==
    LET scaled == DrawScaledSize(orig.size, label, master)
    IN  displayed_stamp_rects_info \o
            [i \in DOMAIN stamps_data_to_draw |->
                HitRecord(stamps_data_to_draw[i], scaled, orig.size)]

draw_stamp_rectangles(stamps_data_to_draw, orig, label, master) ==
    LET scaled == DrawScaledSize(orig.size, label, master)
    IN  [i \in DOMAIN stamps_data_to_draw |->
            HitRecord(stamps_data_to_draw[i], scaled, orig.size)]

(***************************************************************************)
(* run_stamp_detection, the Detect Stamps button's command.  A disabled    *)
(* button runs no command; with no image open the handler returns at once. *)
(***************************************************************************)
run_stamp_detection ==
    /\ detect_button = NORMAL
    /\ current_image_path # None /\ original_pil_image # None
    /\ \E mkdir \in {"ok", "OSError"}, label \in LabelSizes, master \in MasterSizes :
       \E env \in Envs(disk[current_image_path], mkdir, MaxUuids + MaxUploads) :
           LET content == disk[current_image_path]
               r == detect_and_segment_stamps(current_image_path, content, mkdir, env)
               boxes_image == [path |-> current_image_path, size |-> original_pil_image.size]
               shown == display_image(disk, current_image_path,
                                      IF r.ret # <<>> THEN boxes_image ELSE None, label,
                                      original_pil_image, tk_image, current_image_path)
           IN  /\ files' = ApplyWrites(files, r.writes, 1)
               /\ issued' = issued + Len(env)
               /\ calls' = <<CallRecord(current_image_path, content, mkdir, env, r, files)>>
               /\ last_op' = [op |-> "run_stamp_detection", outcome |-> r.raised,
                               detected_since_open |-> TRUE]
               /\ IF r.raised # NoError
                  THEN /\ detected_stamps_data' = <<>>
                       /\ displayed_stamp_rects_info' = <<>>
                       /\ UNCHANGED <<original_pil_image, tk_image, detect_button>>
                  ELSE /\ detected_stamps_data' = r.ret
                       /\ displayed_stamp_rects_info' =
                              IF r.ret # <<>>
                              THEN draw_stamp_rectangles(r.ret, original_pil_image,
                                                         label, master)
                              ELSE <<>>
                       /\ original_pil_image' = shown.original_pil_image
                       /\ tk_image' = shown.tk_image
                       /\ detect_button' = shown.detect_button
    /\ UNCHANGED <<disk, current_image_path, sideVars>>

(***************************************************************************)
(* on_image_click(event), bound to <Button-1> on image_label.  The event's *)
(* point lies inside the label.  The handler changes no field; last_op     *)
(* records what it did: the adjusted point, hit (the index of the hit      *)
(* record it resolved to, 0 for none), the paths it looked up in the       *)
(* database and the details windows it opened.  The details window is      *)
(* modal and the handler waits until it is closed.                         *)
(***************************************************************************)
Centring(label, displayed) ==
    <<(label[1] - displayed[1]) \div 2, (label[2] - displayed[2]) \div 2>>

Contains_exclusive(scaled_bbox, px, py) ==
    /\ scaled_bbox[1] < px /\ px < scaled_bbox[3]
    /\ scaled_bbox[2] < py /\ py < scaled_bbox[4]

Contains(scaled_bbox, px, py) ==
    /\ scaled_bbox[1] <= px /\ px <= scaled_bbox[3]
    /\ scaled_bbox[2] <= py /\ py <= scaled_bbox[4]

FirstHit_nearest(rects_info, px, py) ==
    LET hits == {i \in DOMAIN rects_info : Contains(rects_info[i].scaled_bbox, px, py)}
    IN  IF hits # {} THEN MinOf(hits) ELSE IF rects_info # <<>> THEN 1 ELSE 0

\* The loop of lines 332-355: the first record whose box holds the point.
FirstHit(rects_info, px, py) ==
    LET hits == {i \in DOMAIN rects_info : Contains(rects_info[i].scaled_bbox, px, py)}
    IN  IF hits = {} THEN 0 ELSE MinOf(hits)

\* show_stamp_details_window: what the window shows.
show_stamp_details_window(db_details, original_detection_data, fs) ==
    [original_data |-> original_detection_data,
     db_details |-> db_details,
     image_found |-> original_detection_data.path \in DOMAIN fs]

\* Points of the label worth clicking: its origin and, for each hit record,
\* the centre of its box, two opposite corners and the pixel right of it,
\* each moved by the centring offset.
BoxCentre(scaled_bbox) ==
    <<(scaled_bbox[1] + scaled_bbox[3]) \div 2, (scaled_bbox[2] + scaled_bbox[4]) \div 2>>

ClickPoints(label) ==
    LET off == IF tk_image = None THEN <<0, 0>> ELSE Centring(label, tk_image)
        of(i) == displayed_stamp_rects_info[i].scaled_bbox
        pts == UNION {{BoxCentre(of(i)), <<of(i)[1], of(i)[2]>>, <<of(i)[3], of(i)[4]>>,
                       <<of(i)[3] + 1, of(i)[2]>>} :
                      i \in DOMAIN displayed_stamp_rects_info}
    IN  {<<0, 0>>} \cup
        {q \in {<<pt[1] + off[1], pt[2] + off[2]>> : pt \in pts} :
            /\ 0 <= q[1] /\ q[1] < label[1]
            /\ 0 <= q[2] /\ q[2] < label[2]}

\* A variant that drops the hit records once a click is handled.
on_image_click_once ==
    /\ \E label \in LabelSizes :
       \E click \in ClickPoints(label) :
          IF tk_image = None
          THEN last_op' = [op |-> "on_image_click", outcome |-> NoError, click |-> click,
                           label |-> label, adjusted |-> None, hit |-> 0,
                           lookups |-> <<>>, windows |-> <<>>,
                           detected_since_open |-> last_op.detected_since_open]
          ELSE LET off == Centring(label, tk_image)
                   adjusted_click_x == click[1] - off[1]
                   adjusted_click_y == click[2] - off[2]
                   hit == FirstHit(displayed_stamp_rects_info, adjusted_click_x,
                                   adjusted_click_y)
                   original_stamp_data == displayed_stamp_rects_info[hit].original_data
                   clicked == [op |-> "on_image_click", outcome |-> NoError,
                               click |-> click, label |-> label,
                               adjusted |-> <<adjusted_click_x, adjusted_click_y>>,
                               hit |-> hit, lookups |-> <<>>, windows |-> <<>>,
                               detected_since_open |-> last_op.detected_since_open]
               IN  IF hit = 0
                   THEN last_op' = clicked
                   ELSE \E conn \in {"ok", "sqlite3.Error"} :
                           LET stamp_details_from_db ==
                                   get_stamp_by_image_path(db.rows, original_stamp_data.path,
                                                           conn)
                           IN  last_op' =
                                   [clicked EXCEPT
                                      !.lookups = <<original_stamp_data.path>>,
                                      !.windows = <<show_stamp_details_window(
                                                       stamp_details_from_db,
                                                       original_stamp_data, files)>>]
    /\ displayed_stamp_rects_info' = <<>>
    /\ UNCHANGED <<disk, files, issued, calls, current_image_path, original_pil_image,
                   detected_stamps_data, detect_button, tk_image, sideVars>>

on_image_click ==
    /\ \E label \in LabelSizes :
       \E click \in ClickPoints(label) :
          IF tk_image = None
          THEN last_op' = [op |-> "on_image_click", outcome |-> NoError, click |-> click,
                           label |-> label, adjusted |-> None, hit |-> 0,
                           lookups |-> <<>>, windows |-> <<>>,
                           detected_since_open |-> last_op.detected_since_open]
          ELSE LET off == Centring(label, tk_image)
                   adjusted_click_x == click[1] - off[1]
                   adjusted_click_y == click[2] - off[2]
                   hit == FirstHit(displayed_stamp_rects_info, adjusted_click_x,
                                   adjusted_click_y)
                   original_stamp_data == displayed_stamp_rects_info[hit].original_data
                   clicked == [op |-> "on_image_click", outcome |-> NoError,
                               click |-> click, label |-> label,
                               adjusted |-> <<adjusted_click_x, adjusted_click_y>>,
                               hit |-> hit, lookups |-> <<>>, windows |-> <<>>,
                               detected_since_open |-> last_op.detected_since_open]
               IN  IF hit = 0
                   THEN last_op' = clicked
                   ELSE \E conn \in {"ok", "sqlite3.Error"} :
                           LET stamp_details_from_db ==
                                   get_stamp_by_image_path(db.rows, original_stamp_data.path,
                                                           conn)
                           IN  last_op' =
                                   [clicked EXCEPT
                                      !.lookups = <<original_stamp_data.path>>,
                                      !.windows = <<show_stamp_details_window(
                                                       stamp_details_from_db,
                                                       original_stamp_data, files)>>]
    /\ UNCHANGED <<disk, files, issued, calls, current_image_path, original_pil_image,
                   detected_stamps_data, displayed_stamp_rects_info, detect_button,
                   tk_image, sideVars>>

(***************************************************************************)
(* Sheets for the application with clicks: a diamond, a small rectangle    *)
(* that lies outside the diamond and inside the diamond's bounding box,    *)
(* and a rectangle away from both.                                         *)
(***************************************************************************)
ClickCatalogue ==
    << Polygon(<<<<100, 35>>, <<200, 135>>, <<100, 235>>, <<0, 135>>>>),
       Polygon(Rect(5, 40, 35, 80)),
       Polygon(Rect(400, 100, 459, 129)) >>

ClickImages ==
    {[size |-> ImageSize, contours |-> [i \in DOMAIN ix |-> ClickCatalogue[ix[i]]]] :
        ix \in Increasing(Len(ClickCatalogue), MaxContours)}

\* Only the sheet is on disk.
InitClick ==
    /\ \E image \in ClickImages : disk = [p \in {SheetPath} |-> ImageFile(image)]
    /\ files = NoFiles
    /\ issued = 0
    /\ calls = <<>>
    /\ InitApp
    /\ fit = None
    /\ db = EmptyDb
    /\ running = <<>>

NextClick ==
    \/ open_image_dialog
    \/ run_stamp_detection
    \/ on_image_click

SpecClick == InitClick /\ [][NextClick]_vars

(***************************************************************************)
(* The application is run on sheets whose contours lie in the right part   *)
(* of the sheet (x >= 350).                                                *)
(***************************************************************************)
AppImages ==
    {image \in Images :
        \A i \in DOMAIN image.contours :
            \A j \in DOMAIN image.contours[i].pts : image.contours[i].pts[j][1] >= 350}

Init == InitWith(AppImages)

Next ==
    \/ open_image_dialog
    \/ run_stamp_detection

Spec == Init /\ [][Next]_vars

(***************************************************************************)
(* One render pass of run_stamp_detection on its own, for every image size *)
(* up to MaxDim and every label size up to MaxLabel: draw_stamp_rectangles *)
(* computes its scaled size, then calls display_image with the image it    *)
(* drew on, which computes its own.  The label's master reports a size     *)
(* somewhat larger than the largest label, or 600 x 400.                   *)
(***************************************************************************)
FitSizes == (1..MaxDim) \X (1..MaxDim)
FitLabels == (1..MaxLabel) \X (1..MaxLabel)
FitMasters == {<<MaxLabel + 2, MaxLabel>>, DefaultLabelSize}

InitFit ==
    /\ fit \in [size : FitSizes, label : FitLabels, master : FitMasters,
                 drawn : {None}, shown : {None}]
    /\ disk = NoFiles
    /\ files = NoFiles
    /\ issued = 0
    /\ calls = <<>>
    /\ InitApp
    /\ db = EmptyDb
    /\ running = <<>>

render_pass ==
    /\ fit.shown = None
    /\ LET image_to_draw_on == [path |-> SheetPath, size |-> fit.size]
           shown == display_image(disk, SheetPath, image_to_draw_on, fit.label,
                                  image_to_draw_on, None, SheetPath)
       IN  fit' = [fit EXCEPT !.drawn = DrawScaledSize(fit.size, fit.label, fit.master),
                              !.shown = shown.tk_image]
    /\ UNCHANGED <<disk, files, issued, calls, appVars, db, running>>

NextFit == render_pass

SpecFit == InitFit /\ [][NextFit]_vars

(***************************************************************************)
(* db_utils.py on its own: add_stamp_record and get_stamp_by_image_path    *)
(* called in any order on a table of up to MaxRows rows, as main_test and  *)
(* a cataloguing script call them.  Each call opens its own connection.    *)
(***************************************************************************)
DbPaths == {StampSavePath(Stem(SheetPath), <<hex8, 0>>) : hex8 \in Hex8s}

Urls == {<<>>, <<"https://a", "https://b">>, <<"https://b", "https://a">>}

StampDatas ==
    [detected_stamp_image_path : DbPaths \cup {None, Absent},
     country : {Absent, Str("FR")},
     source_urls : {Absent} \cup {List(l) : l \in Urls}]

InitDb ==
    /\ db = EmptyDb
    /\ disk = NoFiles
    /\ files = NoFiles
    /\ issued = 0
    /\ calls = <<>>
    /\ InitApp
    /\ fit = None
    /\ running = <<>>

call_add_stamp_record ==
    /\ Len(db.rows) < MaxRows
    /\ \E stamp_data \in StampDatas, conn \in {"ok", "sqlite3.Error"} :
          LET r == add_stamp_record(db.rows, stamp_data, conn)
          IN  db' = [rows |-> r.rows,
                     inserted |-> IF r.ret # None THEN Append(db.inserted, stamp_data)
                                  ELSE db.inserted,
                     last |-> [op |-> "add_stamp_record", stamp_data |-> stamp_data,
                               conn |-> conn, ret |-> r.ret, rows_before |-> db.rows,
                               stamp_data_after |-> r.stamp_data]]
    /\ UNCHANGED <<disk, files, issued, calls, appVars, fit, running>>

call_get_stamp_by_image_path ==
    /\ \E image_path \in DbPaths, conn \in {"ok", "sqlite3.Error"} :
          db' = [db EXCEPT !.last =
                    [op |-> "get_stamp_by_image_path", image_path |-> image_path,
                     conn |-> conn,
                     ret |-> get_stamp_by_image_path(db.rows, image_path, conn)]]
    /\ UNCHANGED <<disk, files, issued, calls, appVars, fit, running>>

call_get_all_stamps ==
    /\ \E order \in Orders(db.rows), conn \in {"ok", "sqlite3.Error"} :
          db' = [db EXCEPT !.last =
                    [op |-> "get_all_stamps", conn |-> conn,
                     ret |-> get_all_stamps(db.rows, order, conn)]]
    /\ UNCHANGED <<disk, files, issued, calls, appVars, fit, running>>

NextDb ==
    \/ call_add_stamp_record
    \/ call_get_stamp_by_image_path
    \/ call_get_all_stamps

SpecDb == InitDb /\ [][NextDb]_vars

(***************************************************************************)
(* detect_and_segment_stamps called from several threads of one process.   *)
(* running[t] is the t-th invocation: its path and file content, pc        *)
(* ("loop" inside the for loop of line 77, "done" after return or raise),  *)
(* i (the next contour), st (the loop's state, as in LoopBody), and        *)
(* alongside, the invocations that had not finished when it began.  A step *)
(* is the code up to the loop, one iteration of the loop, or the return;   *)
(* the steps of different invocations interleave in any order.  The        *)
(* function has no globals it assigns and takes no lock: the invocations   *)
(* meet only in uuid4 and in the files of DETECTED_STAMPS_DIR.             *)
(***************************************************************************)
ConcurrentCatalogue ==
    <<ContourCatalogue[5], ContourCatalogue[9], ContourCatalogue[6]>>

ConcurrentImages ==
    {[size |-> ImageSize,
      contours |-> [i \in DOMAIN ix |-> ConcurrentCatalogue[ix[i]]]] :
        ix \in Increasing(Len(ConcurrentCatalogue), MaxContours)}

\* sheet.png and page.jpg both decode, to the same picture.
InitConcurrent ==
    /\ \E image \in ConcurrentImages :
           disk = [p \in {SheetPath, PagePath, BrokenPath} |->
                     IF p = BrokenPath THEN Garbage ELSE ImageFile(image)]
    /\ files = NoFiles
    /\ issued = 0
    /\ calls = <<>>
    /\ InitApp
    /\ fit = None
    /\ db = EmptyDb
    /\ running = <<>>

Unfinished == {t \in DOMAIN running : running[t].pc # "done"}

\* Lines 46-76: mkdir, imread and the preprocessing up to findContours.
detect_begin(path) ==
    /\ Len(running) < MaxCalls
    /\ \E mkdir \in {"ok", "OSError"} :
          LET content == disk[path]
              raised == IF mkdir = "OSError" THEN "ValueError"
                        ELSE IF content.kind # "image" THEN "IOError"
                        ELSE NoError
          IN  running' = Append(running,
                  [path |-> path, content |-> content,
                   pc |-> IF raised = NoError THEN "loop" ELSE "done",
                   i |-> 1,
                   st |-> [data |-> <<>>, writes |-> <<>>, trace |-> <<>>, k |-> 0,
                           raised |-> raised],
                   alongside |-> Unfinished])
    /\ UNCHANGED <<disk, files, issued, calls, appVars, fit, db>>

\* Lines 77-114 for one contour: a contour that reaches line 102 draws a
\* uuid4 value and calls cv2.imwrite.
detect_iteration(t) ==
    /\ t \in DOMAIN running
    /\ running[t].pc = "loop"
    /\ running[t].i <= Len(running[t].content.image.contours)
    /\ LET inv == running[t]
           contour == inv.content.image.contours[inv.i]
           buffers == Buffers(inv.path)
           size == inv.content.image.size
           After(st) ==
               [running EXCEPT ![t].st = st, ![t].i = @ + 1,
                               ![t].pc = IF st.raised = NoError THEN "loop" ELSE "done"]
       IN  IF Passes(contour)
           THEN /\ issued < MaxUuids
                /\ \E hex8 \in Hex8s, imwrite \in ImwriteOutcomes :
                      LET env == [k \in {inv.st.k + 1} |->
                                     [uuid |-> <<hex8, issued + 1>>, imwrite |-> imwrite]]
                          st == LoopBody(inv.st, contour, env, Stem(inv.path), buffers, size)
                      IN  /\ running' = After(st)
                          /\ files' = ApplyWrites(files, st.writes, Len(inv.st.writes) + 1)
                /\ issued' = issued + 1
           ELSE /\ running' = After(LoopBody(inv.st, contour, <<>>, Stem(inv.path),
                                             buffers, size))
                /\ UNCHANGED <<files, issued>>
    /\ UNCHANGED <<disk, calls, appVars, fit, db>>

\* Line 116: return processed_stamps_data.
detect_return(t) ==
    /\ t \in DOMAIN running
    /\ running[t].pc = "loop"
    /\ running[t].i > Len(running[t].content.image.contours)
    /\ running' = [running EXCEPT ![t].pc = "done"]
    /\ UNCHANGED <<disk, files, issued, calls, appVars, fit, db>>

NextConcurrent ==
    \/ \E path \in {SheetPath, PagePath, BrokenPath} : detect_begin(path)
    \/ \E t \in 1..MaxCalls : detect_iteration(t)
    \/ \E t \in 1..MaxCalls : detect_return(t)

SpecConcurrent == InitConcurrent /\ [][NextConcurrent]_vars

(***************************************************************************)
(* The claims.  A call on record is calls[k]; its i-th trace entry tells   *)
(* what the loop did with the i-th contour of the decoded image.  The      *)
(* checks of the specification are restated here from its text.            *)
(***************************************************************************)
ContoursOf(c) == IF c.content.kind = "image" THEN c.content.image.contours ELSE <<>>

SizeOf(c) == c.content.image.size

AreaStrictlyInside(contour) ==
    /\ contourArea2(contour) > 2 * MIN_CONTOUR_AREA
    /\ contourArea2(contour) < 2 * MAX_CONTOUR_AREA

BoxOf(contour) == boundingRect(contour.approx)

RatioInside(contour) ==
    /\ 2 * BoxOf(contour)[3] >= BoxOf(contour)[4]
    /\ BoxOf(contour)[3] <= 2 * BoxOf(contour)[4]

PassesChecks(contour) ==
    AreaStrictlyInside(contour) /\ Len(contour.approx) = 4 /\ RatioInside(contour)

\* C1: every contour that produces a returned record or a written file has an
\* area strictly between MIN_CONTOUR_AREA and MAX_CONTOUR_AREA; a contour of
\* area exactly 1000 or exactly 50000 produces neither.
C1_AreaStrictlyInBand ==
    \A k \in DOMAIN calls :
        \A i \in DOMAIN calls[k].trace :
            LET t == calls[k].trace[i]
                area2 == contourArea2(ContoursOf(calls[k])[i])
            IN  /\ (t.rec # 0 \/ t.wrote) => AreaStrictlyInside(ContoursOf(calls[k])[i])
                /\ area2 \in {2 * MIN_CONTOUR_AREA, 2 * MAX_CONTOUR_AREA}
                       => t.rec = 0 /\ ~t.wrote

\* A call that returned a record for a contour of area 1000.5 and none for a
\* contour of area exactly 1000.
C1_Witness ==
    \E k \in DOMAIN calls :
        \E i, j \in DOMAIN calls[k].trace :
            /\ calls[k].trace[i].rec # 0
            /\ contourArea2(ContoursOf(calls[k])[i]) = 2 * MIN_CONTOUR_AREA + 1
            /\ calls[k].trace[j].branch = "area"
            /\ contourArea2(ContoursOf(calls[k])[j]) = 2 * MIN_CONTOUR_AREA

\* C2: every returned record comes from a contour whose simplified polygon has
\* exactly 4 vertices and whose bounding box has 0.5 <= w/h <= 2.0; a contour
\* that passes the area and vertex checks with w/h exactly 0.5 or exactly 2.0
\* is accepted (it reaches the export).
C2_QuadrilateralAndRatioInclusive ==
    \A k \in DOMAIN calls :
        \A i \in DOMAIN calls[k].trace :
            LET t == calls[k].trace[i]
                contour == ContoursOf(calls[k])[i]
                w == BoxOf(contour)[3]
                h == BoxOf(contour)[4]
            IN  /\ t.rec # 0 => Len(contour.approx) = 4 /\ RatioInside(contour)
                /\ (/\ AreaStrictlyInside(contour)
                    /\ Len(contour.approx) = 4
                    /\ (2 * w = h \/ w = 2 * h))
                       => t.branch \in {"imwrite", "except"}

\* One call that returned a record for a box of ratio exactly 0.5 and one for a
\* box of ratio exactly 2.0.
C2_Witness ==
    \E k \in DOMAIN calls :
        \E i, j \in DOMAIN calls[k].trace :
            /\ calls[k].trace[i].rec # 0
            /\ 2 * BoxOf(ContoursOf(calls[k])[i])[3] = BoxOf(ContoursOf(calls[k])[i])[4]
            /\ calls[k].trace[j].rec # 0
            /\ BoxOf(ContoursOf(calls[k])[j])[3] = 2 * BoxOf(ContoursOf(calls[k])[j])[4]

\* The bounding boxes, in contour order, of the contours that pass the three
\* checks and whose crop was written.
RECURSIVE ExportedBoxes(_, _, _)
ExportedBoxes(contours, trace, i) ==
    IF i > Len(contours) THEN <<>>
    ELSE (IF PassesChecks(contours[i]) /\ trace[i].wrote
          THEN <<BoxOf(contours[i])>> ELSE <<>>)
         \o ExportedBoxes(contours, trace, i + 1)

\* C3: a call that returns returns exactly one record per contour that passes
\* the area, 4-vertex and aspect-ratio checks and whose write succeeds, in
\* contour order, each with the bounding rectangle of the simplified polygon.
C3_OneRecordPerExportedContour ==
    \A k \in DOMAIN calls :
        (calls[k].raised = NoError /\ calls[k].content.kind = "image")
            => /\ Len(calls[k].trace) = Len(ContoursOf(calls[k]))
               /\ [j \in DOMAIN calls[k].ret |-> calls[k].ret[j].bbox]
                      = ExportedBoxes(ContoursOf(calls[k]), calls[k].trace, 1)

\* C4: every returned bbox (x, y, w, h) has w > 0, h > 0, 0 <= x, 0 <= y,
\* x + w <= W and y + h <= H for the W x H source image.
C4_BboxInsideImage ==
    \A k \in DOMAIN calls :
        \A j \in DOMAIN calls[k].ret :
            LET b == calls[k].ret[j].bbox
            IN  /\ b[3] > 0 /\ b[4] > 0
                /\ 0 <= b[1] /\ 0 <= b[2]
                /\ b[1] + b[3] <= SizeOf(calls[k])[1]
                /\ b[2] + b[4] <= SizeOf(calls[k])[2]

\* A returned box away from the origin, and one that ends on the image's last row.
C4_Witness ==
    \E k \in DOMAIN calls :
        \E i, j \in DOMAIN calls[k].ret :
            /\ calls[k].ret[i].bbox[1] > 0
            /\ calls[k].ret[j].bbox[2] + calls[k].ret[j].bbox[4] = SizeOf(calls[k])[2]

PathsOf(c) == {c.ret[j].path : j \in DOMAIN c.ret}

\* C5: the records of one call have pairwise distinct paths, and two calls on
\* the same source image return no path in common.
C5_PathsDistinct ==
    /\ \A k \in DOMAIN calls : Cardinality(PathsOf(calls[k])) = Len(calls[k].ret)
    /\ \A k1, k2 \in DOMAIN calls :
           (k1 # k2 /\ calls[k1].path = calls[k2].path)
               => PathsOf(calls[k1]) \cap PathsOf(calls[k2]) = {}

\* C6: a candidate whose write fails is omitted from the returned list, the
\* later contours are still processed, and every returned record's crop was
\* written by the call.
C6_FailedWritesOmitted ==
    \A k \in DOMAIN calls :
        (calls[k].raised = NoError /\ calls[k].content.kind = "image")
            => /\ Len(calls[k].trace) = Len(ContoursOf(calls[k]))
               /\ \A i \in DOMAIN calls[k].trace :
                      /\ calls[k].trace[i].rec # 0 => calls[k].trace[i].wrote
                      /\ (PassesChecks(ContoursOf(calls[k])[i]) /\ calls[k].trace[i].wrote)
                             => calls[k].trace[i].rec # 0
               /\ \A j \in DOMAIN calls[k].ret :
                      \E n \in DOMAIN calls[k].writes :
                          calls[k].writes[n][1] = calls[k].ret[j].path

\* What the application holds after run_stamp_detection made the call on record.
AfterDetection == last_op.op = "run_stamp_detection" /\ Len(calls) = 1

\* C7 as stated: a call on a path that holds no decodable image raises IOError,
\* returns no record and writes no crop file.
C7_UndecodableRaisesIOError ==
    \A k \in DOMAIN calls :
        calls[k].content.kind # "image"
            => /\ calls[k].raised = "IOError"
               /\ calls[k].ret = <<>>
               /\ calls[k].writes = <<>>

\* C7, amended: a call on a path that holds no decodable image raises IOError,
\* or ValueError when the output directory cannot be created; it returns no
\* record and writes no crop file, and run_stamp_detection, to which the error
\* is reported, is left with no region and no hit record.
C7_UndecodableRaises ==
    /\ \A k \in DOMAIN calls :
           calls[k].content.kind # "image"
               => /\ calls[k].raised = (IF calls[k].mkdir = "ok" THEN "IOError"
                                        ELSE "ValueError")
                  /\ calls[k].ret = <<>>
                  /\ calls[k].writes = <<>>
                  /\ k = Len(calls) => files = calls[k].files_before
    /\ (AfterDetection /\ calls[1].content.kind # "image")
           => /\ last_op.outcome \in {"IOError", "ValueError"}
              /\ detected_stamps_data = <<>>
              /\ displayed_stamp_rects_info = <<>>

\* run_stamp_detection ran on a file cv2.imread could not decode, with the
\* output directory in place, and got IOError.
C7_Witness ==
    /\ AfterDetection
    /\ calls[1].content.kind # "image"
    /\ calls[1].mkdir = "ok"
    /\ calls[1].raised = "IOError"
    /\ detected_stamps_data = <<>>

NoContourPasses(c) ==
    /\ c.content.kind = "image"
    /\ \A i \in DOMAIN ContoursOf(c) : ~PassesChecks(ContoursOf(c)[i])

\* C8 as stated: on a decodable image in which no contour passes the checks the
\* call returns the empty list without raising, and run_stamp_detection leaves
\* detected_stamps_data and displayed_stamp_rects_info empty.
C8_NoCandidateReturnsEmpty ==
    /\ \A k \in DOMAIN calls :
           NoContourPasses(calls[k]) => calls[k].raised = NoError /\ calls[k].ret = <<>>
    /\ (AfterDetection /\ NoContourPasses(calls[1]))
           => detected_stamps_data = <<>> /\ displayed_stamp_rects_info = <<>>

\* C8, amended: on a decodable image in which no contour passes the checks the
\* call returns the empty list without raising when the output directory
\* exists or can be created, and raises ValueError when it cannot; either way
\* run_stamp_detection leaves both lists empty.
C8_NoCandidateReturnsEmptyOrValueError ==
    /\ \A k \in DOMAIN calls :
           NoContourPasses(calls[k])
               => /\ calls[k].ret = <<>>
                  /\ calls[k].raised = (IF calls[k].mkdir = "ok" THEN NoError
                                        ELSE "ValueError")
    /\ (AfterDetection /\ NoContourPasses(calls[1]))
           => detected_stamps_data = <<>> /\ displayed_stamp_rects_info = <<>>

\* run_stamp_detection ran on a decodable sheet with contours, none of which
\* passes, and the call returned the empty list.
C8_Witness ==
    /\ AfterDetection
    /\ NoContourPasses(calls[1])
    /\ ContoursOf(calls[1]) # <<>>
    /\ calls[1].raised = NoError
    /\ calls[1].ret = <<>>
    /\ detected_stamps_data = <<>>
    /\ displayed_stamp_rects_info = <<>>

\* The crop the specification describes for a contour of the image at `path`.
CropOfOriginal(path, contour) ==
    [pixels |-> <<"imread", path>>,
     rows |-> <<BoxOf(contour)[2], BoxOf(contour)[2] + BoxOf(contour)[4]>>,
     cols |-> <<BoxOf(contour)[1], BoxOf(contour)[1] + BoxOf(contour)[3]>>]

RECURSIVE WrittenCrops(_, _, _, _)
WrittenCrops(path, contours, trace, i) ==
    IF i > Len(trace) THEN <<>>
    ELSE (IF trace[i].wrote THEN <<CropOfOriginal(path, contours[i])>> ELSE <<>>)
         \o WrittenCrops(path, contours, trace, i + 1)

\* C9: the pixels written for each accepted candidate are the rectangle
\* [y, y+h) x [x, x+w) of the decoded original image, never of the grayscale,
\* blurred or edge buffer; the original buffers hold the decoded image after
\* the pass, and no source file is written.
C9_CropsComeFromOriginal ==
    \A k \in DOMAIN calls :
        /\ [n \in DOMAIN calls[k].writes |-> calls[k].writes[n][2]]
               = WrittenCrops(calls[k].path, ContoursOf(calls[k]), calls[k].trace, 1)
        /\ \A n \in DOMAIN calls[k].writes : calls[k].writes[n][1] \notin DOMAIN disk
        /\ disk[calls[k].path] = calls[k].content
        /\ calls[k].buffers # None
               => /\ calls[k].buffers.img = <<"imread", calls[k].path>>
                  /\ calls[k].buffers.original_image_for_cropping
                         = <<"imread", calls[k].path>>

\* A call that wrote two crops.
C9_Witness ==
    \E k \in DOMAIN calls :
        /\ Len(calls[k].writes) = 2
        /\ calls[k].writes[1][2].rows # calls[k].writes[2][2].rows

C11_SameScaledSize ==
    (fit # None /\ fit.shown # None) => fit.drawn = fit.shown

\* C12: for W, H >= 1 and a label of at least 2 x 2, the fit gives
\* 1 <= newW <= labelW and 1 <= newH <= labelH with one uniform scale:
\* newW / W = newH / H.
C12_FitsWithUniformScale ==
    (fit # None /\ fit.shown # None /\ fit.label[1] >= 2 /\ fit.label[2] >= 2)
        => /\ 1 <= fit.shown[1] /\ fit.shown[1] <= fit.label[1]
           /\ 1 <= fit.shown[2] /\ fit.shown[2] <= fit.label[2]
           /\ fit.shown[1] * fit.size[2] = fit.shown[2] * fit.size[1]

\* C12, amended: the fit gives 1 <= newW <= labelW and 1 <= newH <= labelH,
\* fills the label on one axis, and its two scales differ by at most
\* 1 / min(W, H): |newW * H - newH * W| <= max(W, H).
C12_FitsWithinLabel ==
    (fit # None /\ fit.shown # None /\ fit.label[1] >= 2 /\ fit.label[2] >= 2)
        => /\ 1 <= fit.shown[1] /\ fit.shown[1] <= fit.label[1]
           /\ 1 <= fit.shown[2] /\ fit.shown[2] <= fit.label[2]
           /\ fit.shown[1] = fit.label[1] \/ fit.shown[2] = fit.label[2]
           /\ Abs(fit.shown[1] * fit.size[2] - fit.shown[2] * fit.size[1])
                  <= Max(fit.size[1], fit.size[2])

\* A tall image refitted to the label's height, its two scales different.
C12_Witness ==
    /\ fit # None /\ fit.shown # None
    /\ fit.label[1] >= 2 /\ fit.label[2] >= 2
    /\ fit.shown[2] = fit.label[2]
    /\ fit.shown[1] < fit.label[1]
    /\ fit.shown[1] * fit.size[2] # fit.shown[2] * fit.size[1]

(***************************************************************************)
(* Clicks.  A click on record is last_op of on_image_click; the hit        *)
(* records and the displayed image are those of the state, which the       *)
(* handler leaves as they were.  The containment test and the offset are   *)
(* restated here from the specification's text.                            *)
(***************************************************************************)
Clicked == last_op.op = "on_image_click"

\* The click point less the per-axis centring offset, rounded down.
AdjustedPoint ==
    <<last_op.click[1] - ((last_op.label[1] - tk_image[1]) \div 2),
      last_op.click[2] - ((last_op.label[2] - tk_image[2]) \div 2)>>

\* The hit records whose mapped box holds the adjusted point, edges included.
Holding ==
    IF tk_image = None THEN {}
    ELSE {i \in DOMAIN displayed_stamp_rects_info :
            LET b == displayed_stamp_rects_info[i].scaled_bbox
            IN  /\ b[1] <= AdjustedPoint[1] /\ AdjustedPoint[1] <= b[3]
                /\ b[2] <= AdjustedPoint[2] /\ AdjustedPoint[2] <= b[4]}

\* The centre of the i-th mapped box in label coordinates.
CentreInLabel(i) ==
    LET b == displayed_stamp_rects_info[i].scaled_bbox
    IN  <<(b[1] + b[3]) \div 2 + ((last_op.label[1] - tk_image[1]) \div 2),
          (b[2] + b[4]) \div 2 + ((last_op.label[2] - tk_image[2]) \div 2)>>

\* C13: with a label of at least 50 x 50, a click at the exact centre of a
\* region's mapped box (box centre plus the centring offset) resolves to
\* that same region and to no other.
C13_CentreClickResolvesToItsRegion ==
    (Clicked /\ tk_image # None /\ last_op.label[1] >= 50 /\ last_op.label[2] >= 50)
        => \A i \in DOMAIN displayed_stamp_rects_info :
               last_op.click = CentreInLabel(i)
                   => /\ last_op.hit = i
                      /\ Len(last_op.windows) = 1
                      /\ last_op.windows[1].original_data = detected_stamps_data[i]

\* C14: the hit records are in 1:1 correspondence with detected_stamps_data:
\* as many, and the i-th record's original_data is the i-th region, after
\* draw_stamp_rectangles and in every state any sequence of
\* open_image_dialog, run_stamp_detection and on_image_click reaches.
C14_HitRecordsMatchRegions ==
    /\ Len(displayed_stamp_rects_info) = Len(detected_stamps_data)
    /\ \A i \in DOMAIN displayed_stamp_rects_info :
           displayed_stamp_rects_info[i].original_data = detected_stamps_data[i]

\* A click after a detection that drew two different regions.
C14_Witness ==
    /\ Clicked
    /\ Len(detected_stamps_data) = 2
    /\ Len(displayed_stamp_rects_info) = 2
    /\ detected_stamps_data[1] # detected_stamps_data[2]

\* C15: on_image_click subtracts the centring offset from the click point
\* and resolves to the first hit record in list order whose box holds the
\* adjusted point, all four edges included; no later record is reported.
C15_FirstHoldingRecordWins ==
    (Clicked /\ tk_image # None)
        => /\ last_op.adjusted = AdjustedPoint
           /\ Holding # {}
                  => /\ last_op.hit \in Holding
                     /\ \A i \in Holding : last_op.hit <= i
                     /\ Len(last_op.windows) = 1
                     /\ last_op.windows[1].original_data =
                            displayed_stamp_rects_info[last_op.hit].original_data
                     /\ last_op.lookups =
                            <<displayed_stamp_rects_info[last_op.hit].original_data.path>>

\* Two boxes hold the adjusted point, which lies on an edge of the later
\* one; the earlier one is resolved.
C15_Witness ==
    /\ Clicked /\ tk_image # None
    /\ Cardinality(Holding) = 2
    /\ last_op.hit = 1
    /\ AdjustedPoint[1] = displayed_stamp_rects_info[2].scaled_bbox[3]

\* C16: a click whose adjusted point lies in no mapped box, a click before
\* any detection and a click before any image is displayed resolve to no
\* region: no lookup, no details window, no error.
C16_MissResolvesToNothing ==
    (Clicked /\ Holding = {})
        => /\ last_op.hit = 0
           /\ last_op.lookups = <<>>
           /\ last_op.windows = <<>>
           /\ last_op.outcome = NoError

\* A click at the label's origin while boxes are drawn, none of them there.
C16_Witness ==
    /\ Clicked /\ tk_image # None
    /\ last_op.click = <<0, 0>>
    /\ displayed_stamp_rects_info # <<>>
    /\ Holding = {}
    /\ last_op.hit = 0

(***************************************************************************)
(* The catalogue.  db.last is the last db_utils call; db.inserted[i] is    *)
(* the dict, as the caller passed it, of the i-th insert that returned an  *)
(* id.                                                                     *)
(***************************************************************************)
Added == db.last # None /\ db.last.op = "add_stamp_record"

Got == db.last # None /\ db.last.op = "get_stamp_by_image_path"

\* C17: no two stored records share a detected_stamp_image_path; an insert
\* whose path equals that of an existing record returns None and leaves
\* the existing record and the rest of the table unchanged.
C17_DuplicatePathRejected ==
    /\ \A i, j \in DOMAIN db.rows :
           i # j => db.rows[i].detected_stamp_image_path #
                        db.rows[j].detected_stamp_image_path
    /\ (Added /\ \E i \in DOMAIN db.last.rows_before :
                     db.last.rows_before[i].detected_stamp_image_path =
                         db.last.stamp_data.detected_stamp_image_path)
           => /\ db.last.ret = None
              /\ db.rows = db.last.rows_before

\* An insert over a working connection whose path is already stored, with
\* other source_urls than the stored row.
C17_Witness ==
    /\ Added
    /\ db.last.conn = "ok"
    /\ db.last.ret = None
    /\ \E i \in DOMAIN db.rows :
           /\ db.rows[i].detected_stamp_image_path =
                  db.last.stamp_data.detected_stamp_image_path
           /\ db.last.stamp_data.source_urls = List(<<"https://a", "https://b">>)
           /\ db.rows[i].source_urls = JsonText(<<"https://b", "https://a">>)

\* The supplied fields of the dict d are those of the returned record.
SuppliedFieldsEqual(d, record) ==
    /\ record # None
    /\ record.detected_stamp_image_path = d.detected_stamp_image_path
    /\ d.country # Absent => record.country = d.country
    /\ d.source_urls # Absent => record.source_urls = d.source_urls

\* What a lookup of db.last.image_path is to return: the record of the
\* insert that succeeded with that path, None for a path never inserted.
LookupAsSpecified ==
    LET of == {i \in DOMAIN db.inserted :
                  db.inserted[i].detected_stamp_image_path = db.last.image_path}
    IN  IF of = {} THEN db.last.ret = None
        ELSE \A i \in of : SuppliedFieldsEqual(db.inserted[i], db.last.ret)

PathsUsed(t) ==
    {running[t].st.writes[j][1] : j \in DOMAIN running[t].st.writes}
        \cup {running[t].st.data[j].path : j \in DOMAIN running[t].st.data}

\* C19: two invocations that run concurrently, on the same or on different
\* source images and interleaved in any way, never use the same output
\* path: no crop file of one is written or overwritten by the other.
C19_ConcurrentPathsDisjoint ==
    \A s, t \in DOMAIN running :
        s \in running[t].alongside => PathsUsed(s) \cap PathsUsed(t) = {}

(***************************************************************************)
(* Detection passes compared.                                              *)
(***************************************************************************)
Completed(k) == calls[k].raised = NoError

BoxesReturned(k) == [j \in DOMAIN calls[k].ret |-> calls[k].ret[j].bbox]

\* The contours call k took to cv2.imwrite, and those whose write raised.
Attempted(k) ==
    {i \in DOMAIN calls[k].trace : calls[k].trace[i].branch \in {"imwrite", "except"}}

WriteRaised(k) == {i \in DOMAIN calls[k].trace : calls[k].trace[i].branch = "except"}

\* The returned list of call k holds, in contour order, the boxes of the
\* attempted contours whose write did not raise.
ReturnsAttemptedLessRaised(k) ==
    /\ Len(calls[k].ret) = Cardinality(Attempted(k) \ WriteRaised(k))
    /\ \A i \in Attempted(k) \ WriteRaised(k) :
           /\ calls[k].trace[i].rec =
                  Cardinality({j \in Attempted(k) \ WriteRaised(k) : j <= i})
           /\ calls[k].ret[calls[k].trace[i].rec].bbox = BoxOf(ContoursOf(calls[k])[i])

GotAll == db.last # None /\ db.last.op = "get_all_stamps"

\* C21: add_stamp_record called with a dict that has no
\* 'detected_stamp_image_path' key returns None and inserts nothing: the
\* stored records are the same before and after the call.
C21_MissingPathKeyRejected ==
    (Added /\ db.last.stamp_data.detected_stamp_image_path = Absent)
        => /\ db.last.ret = None
           /\ db.rows = db.last.rows_before

\* A dict with a country and two URLs and no path key, passed over a
\* working connection to a table that holds a row.
C21_Witness ==
    /\ Added
    /\ db.last.stamp_data.detected_stamp_image_path = Absent
    /\ db.last.stamp_data.country = Str("FR")
    /\ db.last.stamp_data.source_urls = List(<<"https://a", "https://b">>)
    /\ db.last.conn = "ok"
    /\ db.last.ret = None
    /\ Len(db.rows) = 1

\* C22: in every record returned by get_stamp_by_image_path or
\* get_all_stamps, 'source_urls' is a list, whatever fields the record was
\* inserted with.
C22_SourceUrlsIsAList ==
    /\ (Got /\ db.last.ret # None) => IsList(db.last.ret.source_urls)
    /\ GotAll => \A j \in DOMAIN db.last.ret : IsList(db.last.ret[j].source_urls)

(***************************************************************************)
(* The application's results over several detections.                      *)
(***************************************************************************)
\* The regions the hit records refer to, in list order.
RegionsOfHitRecords ==
    [i \in DOMAIN displayed_stamp_rects_info |->
        displayed_stamp_rects_info[i].original_data]

\* C23: each run_stamp_detection replaces the previous results: after it
\* returns, detected_stamps_data and the hit records hold exactly the
\* regions of the latest detection call, and both lists are empty if that
\* call raised.
C23_LatestDetectionOnly ==
    AfterDetection =>
        /\ detected_stamps_data = calls[1].ret
        /\ RegionsOfHitRecords = calls[1].ret
        /\ calls[1].raised # NoError =>
               detected_stamps_data = <<>> /\ displayed_stamp_rects_info = <<>>

\* A detection that returned one region and drew one hit record, after an
\* earlier detection had written another crop.
C23_Witness ==
    /\ AfterDetection
    /\ calls[1].raised = NoError
    /\ Len(calls[1].ret) = 1
    /\ Len(displayed_stamp_rects_info) = 1
    /\ Cardinality(DOMAIN calls[1].files_before) >= 1
    /\ calls[1].ret[1].path \notin DOMAIN calls[1].files_before

\* The region a click resolved to.
ResolvedRegion == displayed_stamp_rects_info[last_op.hit].original_data

C27_MappedBoxesInsideDisplayedImage ==
    \A i \in DOMAIN displayed_stamp_rects_info :
        LET b == displayed_stamp_rects_info[i].scaled_bbox
        IN  /\ 0 <= b[1] /\ b[1] <= b[3]
            /\ 0 <= b[2] /\ b[2] <= b[4]
            /\ b[3] <= tk_image[1]
            /\ b[4] <= tk_image[2]

====
